---- MODULE Spec2Model ----
(***************************************************************************)
(* Model of the two programs of the repository:                            *)
(*   Networks.py  - load_data and the analysis functions, as a caller of   *)
(*                  the module may use them (the Streamlit page main() is  *)
(*                  not modelled)                                          *)
(*   episodes.py  - the line-by-line transcript segmenter                  *)
(* Each program has its own specification (SpecGraph, SpecSeg); the        *)
(* variables of the other program stay at their initial values.            *)
(***************************************************************************)
EXTENDS Integers, Sequences, FiniteSets, TLC

VARIABLES
    data,                   \* Networks.py: the table read by pd.read_csv
    min_scenes,             \* Networks.py: the threshold handed to load_data
    G,                      \* Networks.py: the nx.Graph
    gpc,                    \* Networks.py: the caller, "start" | "loaded"
    result,                 \* Networks.py: outcome of the last function call
    text_data,              \* episodes.py: the transcript
    lines,                  \* episodes.py: text_data.split('\n')
    idx,                    \* episodes.py: index of the next line of the for loop
    episodes,               \* episodes.py: episode code -> [title, scenes]
    scenes_with_episodes,   \* episodes.py: the flat scene list
    current_episode,
    current_episode_title,
    scene_buffer,
    in_scene,
    spc                     \* episodes.py: "start" | "scan" | "done"

gvars == <<data, min_scenes, G, gpc, result>>
svars == <<text_data, lines, idx, episodes, scenes_with_episodes,
           current_episode, current_episode_title, scene_buffer, in_scene, spc>>
vars == <<data, min_scenes, G, gpc, result, text_data, lines, idx, episodes,
          scenes_with_episodes, current_episode, current_episode_title,
          scene_buffer, in_scene, spc>>

(***************************************************************************)
(* Bounds and input sets                                                   *)
(***************************************************************************)
MaxRecords == 2
MaxLines == 5

\* Character names that may occur in the table.
Names == {"Jay", "Phil", "Lily"}
\* Character arguments of shortest_path and character_stats: any name the
\* caller likes, and "Dede" occurs in no table, so it is never a node.
QueryNames == Names \cup {"Dede"}
Weights == {1, 50}
\* Values of the parameter min_scenes of load_data: its default and 50.
MinScenesOptions == {1, 50}
\* Values of the parameter top_n of top_connected_characters.
TopNs == {-2, -1, 0, 1, 2, 3, 4}

Rows == [Character1 : Names, Character2 : Names, ScenesTogether : Weights]
Tables == UNION {[1..n -> Rows] : n \in 0..MaxRecords}

\* Python's None, where the value is otherwise a string.
None == "None"

Min(a, b) == IF a < b THEN a ELSE b
Max(a, b) == IF a > b THEN a ELSE b

(***************************************************************************)
(* nx.Graph: nodes in insertion order, and for each node its adjacency     *)
(* dict as a sequence of [to, weight] in insertion order.                  *)
(***************************************************************************)
EmptyGraph == [nodes |-> <<>>, adj |-> <<>>]

NodeSet(g) == {g.nodes[k] : k \in DOMAIN g.nodes}

NbrSet(g, n) == {g.adj[n][k].to : k \in DOMAIN g.adj[n]}

HasEdge(g, u, v) == u \in NodeSet(g) /\ v \in NbrSet(g, u)

EdgeWeight(g, u, v) ==
    LET k == CHOOSE k \in DOMAIN g.adj[u] : g.adj[u][k].to = v
    IN g.adj[u][k].weight

AddNode(g, n) ==
    IF n \in NodeSet(g) THEN g
    ELSE [nodes |-> Append(g.nodes, n), adj |-> g.adj @@ (n :> <<>>)]

\* adj[u][v] = datadict: an existing key keeps its place, a new key goes last.
SetNbr(nbrs, v, w) ==
    IF \E k \in DOMAIN nbrs : nbrs[k].to = v
    THEN [k \in DOMAIN nbrs |->
             IF nbrs[k].to = v THEN [to |-> v, weight |-> w] ELSE nbrs[k]]
    ELSE Append(nbrs, [to |-> v, weight |-> w])

add_edge(g, u, v, w) ==
    LET g1 == AddNode(AddNode(g, u), v)
        a1 == [g1.adj EXCEPT ![u] = SetNbr(@, v, w)]
        a2 == [a1 EXCEPT ![v] = SetNbr(@, u, w)]
    IN [nodes |-> g1.nodes, adj |-> a2]

\* The mutated loop body: the threshold test is strict.
load_row_strict(g, row, min) ==
    IF row.ScenesTogether > min
    THEN add_edge(g, row.Character1, row.Character2, row.ScenesTogether)
    ELSE g

\* The mutated loop body: a repeated pair accumulates its weights.
load_row_sum(g, row, min) ==
    IF row.ScenesTogether >= min
    THEN add_edge(g, row.Character1, row.Character2,
                  IF HasEdge(g, row.Character1, row.Character2)
                  THEN EdgeWeight(g, row.Character1, row.Character2)
                       + row.ScenesTogether
                  ELSE row.ScenesTogether)
    ELSE g

\* One iteration of the loop of load_data.
load_row(g, row, min) ==
    IF row.ScenesTogether >= min
    THEN add_edge(g, row.Character1, row.Character2, row.ScenesTogether)
    ELSE g

RECURSIVE load_rows(_, _, _, _)
load_rows(g, table, k, min) ==
    IF k > Len(table) THEN g
    ELSE load_rows(load_row(g, table[k], min), table, k + 1, min)

load_data(table, min) == load_rows(EmptyGraph, table, 1, min)

(***************************************************************************)
(* top_connected_characters                                                *)
(***************************************************************************)
\* graph.degree(): a self-loop counts twice.
degree(g, n) == Len(g.adj[n]) + (IF n \in NbrSet(g, n) THEN 1 ELSE 0)

degree_items(g) == [k \in DOMAIN g.nodes |-> <<g.nodes[k], degree(g, g.nodes[k])>>]

\* sorted(..., key=lambda x: x[1], reverse=True): stable, equal keys keep
\* their order.
InsertByDegree(sorted, e) ==
    LET p == Cardinality({k \in DOMAIN sorted : sorted[k][2] >= e[2]})
    IN SubSeq(sorted, 1, p) \o <<e>> \o SubSeq(sorted, p + 1, Len(sorted))

RECURSIVE sorted_desc(_, _, _)
sorted_desc(items, k, acc) ==
    IF k > Len(items) THEN acc
    ELSE sorted_desc(items, k + 1, InsertByDegree(acc, items[k]))

\* Python's s[:n]: a negative n counts from the end.
SliceTo(s, n) ==
    LET stop == IF n < 0 THEN Max(Len(s) + n, 0) ELSE Min(n, Len(s))
    IN SubSeq(s, 1, stop)

top_connected_characters(g, top_n) ==
    SliceTo(sorted_desc(degree_items(g), 1, <<>>), top_n)

(***************************************************************************)
(* shortest_path                                                           *)
(***************************************************************************)
\* Outcomes of a call: a returned value, a returned None, a raised exception.
Returned(v) == [kind |-> "return", value |-> v]
ReturnedNone == [kind |-> "None", value |-> <<>>]
Raised(exc) == [kind |-> "raise", value |-> exc]

\* Breadth-first search from the source: st.pred maps each discovered node
\* to the node it was discovered from, st.next is the next fringe.
RECURSIVE bfs_nbrs(_, _, _, _)
bfs_nbrs(g, v, k, st) ==
    IF k > Len(g.adj[v]) THEN st
    ELSE LET w == g.adj[v][k].to
         IN bfs_nbrs(g, v, k + 1,
                IF w \in DOMAIN st.pred THEN st
                ELSE [pred |-> st.pred @@ (w :> v), next |-> Append(st.next, w)])

RECURSIVE bfs_level(_, _, _, _)
bfs_level(g, fringe, k, st) ==
    IF k > Len(fringe) THEN st
    ELSE bfs_level(g, fringe, k + 1, bfs_nbrs(g, fringe[k], 1, st))

RECURSIVE bfs(_, _, _, _)
bfs(g, fringe, pred, target) ==
    IF target \in DOMAIN pred \/ fringe = <<>> THEN pred
    ELSE LET st == bfs_level(g, fringe, 1, [pred |-> pred, next |-> <<>>])
         IN bfs(g, st.next, st.pred, target)

RECURSIVE path_back(_, _, _)
path_back(pred, w, acc) ==
    IF pred[w] = w THEN <<w>> \o acc
    ELSE path_back(pred, pred[w], <<w>> \o acc)

\* nx.shortest_path(G, source, target), unweighted: a path with the fewest
\* edges; NodeNotFound when an endpoint is not in G, NetworkXNoPath when the
\* target cannot be reached.
nx_shortest_path(g, source, target) ==
    IF source \notin NodeSet(g) \/ target \notin NodeSet(g)
    THEN Raised("NodeNotFound")
    ELSE LET pred == bfs(g, <<source>>, (source :> source), target)
         IN IF target \in DOMAIN pred
            THEN Returned(path_back(pred, target, <<>>))
            ELSE Raised("NetworkXNoPath")

\* The mutated handler: every exception of the library is caught.
shortest_path_catch_all(graph, char1, char2) ==
    LET r == nx_shortest_path(graph, char1, char2)
    IN IF r.kind = "raise" THEN ReturnedNone ELSE r

\* try: return nx.shortest_path(...)  except nx.NetworkXNoPath: return None
shortest_path(graph, char1, char2) ==
    LET r == nx_shortest_path(graph, char1, char2)
    IN IF r.kind = "raise" /\ r.value = "NetworkXNoPath" THEN ReturnedNone ELSE r

(***************************************************************************)
(* get_family, character_stats                                             *)
(***************************************************************************)
get_family(character) ==
    IF character \in {"Jay", "Gloria", "Manny", "Joe"} THEN "Pritchett"
    ELSE IF character \in {"Claire", "Phil", "Haley", "Alex", "Luke"} THEN "Dunphy"
    ELSE IF character \in {"Mitchell", "Cameron", "Lily"} THEN "Tucker-Pritchett"
    ELSE "Unknown"

\* graph.edges(character, data=True): the edges at character when it is a
\* node; otherwise the name is iterated as a container of nodes, and none of
\* the letters of a name is a node here.
edges_of(g, character) ==
    IF character \in NodeSet(g) THEN g.adj[character] ELSE <<>>

RECURSIVE sum_weights(_, _)
sum_weights(es, k) ==
    IF k > Len(es) THEN 0 ELSE es[k].weight + sum_weights(es, k + 1)

\* max(neighbors.items(), key=weight): the first item of the largest weight.
max_item(nbrs) ==
    LET k == CHOOSE k \in DOMAIN nbrs :
                 /\ \A j \in DOMAIN nbrs : nbrs[j].weight <= nbrs[k].weight
                 /\ \A j \in 1..(k - 1) : nbrs[j].weight < nbrs[k].weight
    IN nbrs[k]

\* The mutated function: an absent or isolated character gets a zeroed record.
character_stats_default(graph, character) ==
    LET nbrs == edges_of(graph, character)
    IN Returned([total_scenes |-> sum_weights(nbrs, 1),
                 top_co_character |->
                     IF nbrs = <<>> THEN [to |-> None, weight |-> 0]
                     ELSE max_item(nbrs),
                 unique_co_appearances |-> Len(nbrs),
                 family |-> get_family(character)])

character_stats(graph, character) ==
    LET total == sum_weights(edges_of(graph, character), 1)
    IN IF character \notin NodeSet(graph) THEN Raised("KeyError")
       ELSE LET neighbors == graph.adj[character]
            IN IF neighbors = <<>> THEN Raised("ValueError")
               ELSE Returned([total_scenes |-> total,
                              top_co_character |-> max_item(neighbors),
                              unique_co_appearances |-> Len(neighbors),
                              family |-> get_family(character)])

(***************************************************************************)
(* Networks.py as a state machine: a caller builds the graph with          *)
(* load_data and then calls the analysis functions on it, with arguments   *)
(* of its choosing.  The arguments are names (strings) and integers; main()*)
(* itself, which only passes nodes of the graph and top_n >= 1, is not     *)
(* modelled.                                                               *)
(***************************************************************************)
NoResult == [op |-> "none", args |-> <<>>, kind |-> "none", value |-> <<>>]

Outcome(op, args, r) == [op |-> op, args |-> args, kind |-> r.kind, value |-> r.value]

InitSeg0 ==
    /\ text_data = ""
    /\ lines = <<>>
    /\ idx = 1
    /\ episodes = <<>>
    /\ scenes_with_episodes = <<>>
    /\ current_episode = None
    /\ current_episode_title = None
    /\ scene_buffer = <<>>
    /\ in_scene = FALSE
    /\ spc = "start"

InitGraph ==
    /\ data \in Tables
    /\ min_scenes \in MinScenesOptions
    /\ G = EmptyGraph
    /\ gpc = "start"
    /\ result = NoResult
    /\ InitSeg0

LoadData ==
    /\ gpc = "start"
    /\ G' = load_data(data, min_scenes)
    /\ gpc' = "loaded"
    /\ UNCHANGED <<data, min_scenes, result>>
    /\ UNCHANGED svars

TopConnected ==
    /\ gpc = "loaded"
    /\ \E top_n \in TopNs :
           result' = Outcome("top_connected_characters", <<top_n>>,
                             Returned(top_connected_characters(G, top_n)))
    /\ UNCHANGED <<data, min_scenes, G, gpc>>
    /\ UNCHANGED svars

ShortestPath ==
    /\ gpc = "loaded"
    /\ \E char1 \in QueryNames, char2 \in QueryNames :
           result' = Outcome("shortest_path", <<char1, char2>>,
                             shortest_path(G, char1, char2))
    /\ UNCHANGED <<data, min_scenes, G, gpc>>
    /\ UNCHANGED svars

CharacterStats ==
    /\ gpc = "loaded"
    /\ \E character \in QueryNames :
           result' = Outcome("character_stats", <<character>>,
                             character_stats(G, character))
    /\ UNCHANGED <<data, min_scenes, G, gpc>>
    /\ UNCHANGED svars

NextGraph == LoadData \/ TopConnected \/ ShortestPath \/ CharacterStats

SpecGraph == InitGraph /\ [][NextGraph]_vars

(***************************************************************************)
(* Properties of Networks.py, checked under SpecGraph.                     *)
(***************************************************************************)
Loaded == gpc = "loaded"

\* Rows of the table for the unordered pair {a, b}, in either column order.
RecordsFor(a, b) ==
    {k \in DOMAIN data : {data[k].Character1, data[k].Character2} = {a, b}}

\* Those of them that meet the threshold.
KeptFor(a, b) == {k \in RecordsFor(a, b) : data[k].ScenesTogether >= min_scenes}

LastOf(S) == CHOOSE k \in S : \A j \in S : j <= k

\* The nodes reachable from the nodes of S.
RECURSIVE Closure(_, _)
Closure(g, S) ==
    LET T == S \cup UNION {NbrSet(g, n) : n \in S}
    IN IF T = S THEN S ELSE Closure(g, T)

SameComponent(g, u, v) == v \in Closure(g, {u})

PathQuery == result.op = "shortest_path"
Source == result.args[1]
Target == result.args[2]
Disconnected ==
    /\ Source \in NodeSet(G)
    /\ Target \in NodeSet(G)
    /\ ~SameComponent(G, Source, Target)
EndpointAbsent == Source \notin NodeSet(G) \/ Target \notin NodeSet(G)

\* A path of g from u to v: consecutive nodes are adjacent.
IsPath(g, p, u, v) ==
    /\ Len(p) >= 1
    /\ p[1] = u
    /\ p[Len(p)] = v
    /\ \A k \in 1..(Len(p) - 1) : HasEdge(g, p[k], p[k + 1])

\* C1 as claimed: shortest_path returns None, raising nothing, both when the
\* endpoints are nodes of different components and when an endpoint is not
\* a node of the graph.
C1_NoneWhenDisconnectedOrAbsent ==
    (PathQuery /\ (Disconnected \/ EndpointAbsent)) => result.kind = "None"

\* C1 amended: shortest_path returns None when both endpoints are nodes of
\* different components; when an endpoint is not a node the library's
\* NodeNotFound propagates to the caller; otherwise a path is returned.
C1_NoneOnlyWhenDisconnected ==
    PathQuery =>
        /\ Disconnected => result.kind = "None"
        /\ EndpointAbsent => (result.kind = "raise" /\ result.value = "NodeNotFound")
        /\ (~Disconnected /\ ~EndpointAbsent) =>
               (result.kind = "return" /\ IsPath(G, result.value, Source, Target))

C1_Witness ==
    /\ PathQuery
    /\ Disconnected
    /\ Source # Target
    /\ result.kind = "None"

\* C2: after load_data there is an edge between A and B exactly when some
\* row for the unordered pair {A, B} has a weight >= min_scenes.
C2_EdgeIffKeptRecord ==
    Loaded =>
        \A a \in Names, b \in Names : HasEdge(G, a, b) <=> KeptFor(a, b) # {}

C2_Witness ==
    /\ Loaded
    /\ \E a \in Names, b \in Names :
          /\ a # b
          /\ HasEdge(G, a, b)
          /\ \E k \in RecordsFor(a, b) : data[k].ScenesTogether = min_scenes
    /\ \E a \in Names, b \in Names :
          /\ RecordsFor(a, b) # {}
          /\ ~HasEdge(G, a, b)

\* The adjacency of a holds b once, and both directions carry one weight.
OneEdge(g, a, b) ==
    /\ Cardinality({k \in DOMAIN g.adj[a] : g.adj[a][k].to = b}) = 1
    /\ Cardinality({k \in DOMAIN g.adj[b] : g.adj[b][k].to = a}) = 1
    /\ EdgeWeight(g, a, b) = EdgeWeight(g, b, a)

\* C3 as claimed: the edge of a pair carries the weight of the last row of
\* the table for that pair, and a pair has at most one edge.
C3_LastRecordWins ==
    Loaded =>
        \A a \in Names, b \in Names :
            HasEdge(G, a, b) =>
                /\ OneEdge(G, a, b)
                /\ EdgeWeight(G, a, b) = data[LastOf(RecordsFor(a, b))].ScenesTogether

\* C3 amended: the edge of a pair carries the weight of the last row for
\* that pair whose weight meets the threshold (rows below the threshold are
\* skipped and overwrite nothing); weights are never summed, and a pair has
\* at most one edge.
C3_LastKeptRecordWins ==
    Loaded =>
        \A a \in Names, b \in Names :
            HasEdge(G, a, b) =>
                /\ OneEdge(G, a, b)
                /\ KeptFor(a, b) # {}
                /\ EdgeWeight(G, a, b) = data[LastOf(KeptFor(a, b))].ScenesTogether

C3_Witness ==
    /\ Loaded
    /\ \E a \in Names, b \in Names :
          /\ HasEdge(G, a, b)
          /\ \E j \in KeptFor(a, b), k \in KeptFor(a, b) :
                /\ j < k
                /\ data[j].ScenesTogether # data[k].ScenesTogether
                /\ k = LastOf(KeptFor(a, b))
                /\ EdgeWeight(G, a, b) = data[k].ScenesTogether

NonIncreasing(items) ==
    \A k \in 1..(Len(items) - 1) : items[k][2] >= items[k + 1][2]

\* C4 as claimed: top_connected_characters returns nodes with their degrees
\* in non-increasing order of degree, min(n, |nodes|) of them, and none at
\* all when n <= 0.
C4_TopNEmptyForNonPositive ==
    result.op = "top_connected_characters" =>
        LET n == result.args[1]
        IN /\ NonIncreasing(result.value)
           /\ \A k \in DOMAIN result.value :
                 /\ result.value[k][1] \in NodeSet(G)
                 /\ result.value[k][2] = degree(G, result.value[k][1])
           /\ Len(result.value) = IF n <= 0 THEN 0 ELSE Min(n, Len(G.nodes))

\* The character has no edge in the graph (which covers names that are no
\* node of it).
ZeroEdges(g, c) == \A b \in QueryNames : ~HasEdge(g, c, b) /\ ~HasEdge(g, b, c)

\* C8: character_stats fails for a character without edges, returning no
\* record, and the graph stays as load_data built it.
C8_StatsFailWithoutEdges ==
    (result.op = "character_stats" /\ ZeroEdges(G, result.args[1])) =>
        /\ result.kind = "raise"
        /\ G = load_data(data, min_scenes)

C8_Witness ==
    /\ result.op = "character_stats"
    /\ result.args[1] \in Names
    /\ RecordsFor(result.args[1], result.args[1]) = {}
    /\ \E b \in Names : RecordsFor(result.args[1], b) # {}
    /\ ZeroEdges(G, result.args[1])
    /\ G.nodes # <<>>
    /\ result.kind = "raise"

(***************************************************************************)
(* episodes.py: string helpers (str.strip, str.startswith, in, split,      *)
(* join, zfill) and the compiled episode_pattern, character by character.  *)
(***************************************************************************)
Char(s, i) == SubSeq(s, i, i)

Digits == {"0", "1", "2", "3", "4", "5", "6", "7", "8", "9"}
\* The characters str.strip() removes and \s matches, among the code points
\* below 256 (a string of the model holds no others): tab, line feed,
\* vertical tab, form feed, carriage return, 0x1c-0x1f, space, 0x85, 0xa0.
Whitespace ==
    {"\t", "\n", "", "\f", "\r", "", "", "", "", " ",
     "", " "}

RECURSIVE lstrip(_)
lstrip(s) ==
    IF Len(s) > 0 /\ Char(s, 1) \in Whitespace
    THEN lstrip(SubSeq(s, 2, Len(s))) ELSE s

RECURSIVE rstrip(_)
rstrip(s) ==
    IF Len(s) > 0 /\ Char(s, Len(s)) \in Whitespace
    THEN rstrip(SubSeq(s, 1, Len(s) - 1)) ELSE s

strip(s) == rstrip(lstrip(s))

startswith(s, prefix) ==
    Len(s) >= Len(prefix) /\ SubSeq(s, 1, Len(prefix)) = prefix

contains(s, sub) ==
    \E i \in 1..(Len(s) - Len(sub) + 1) : SubSeq(s, i, i + Len(sub) - 1) = sub

RECURSIVE split(_, _)
split(s, sep) ==
    IF \E i \in 1..Len(s) : Char(s, i) = sep
    THEN LET i == CHOOSE i \in 1..Len(s) :
                      /\ Char(s, i) = sep
                      /\ \A j \in 1..(i - 1) : Char(s, j) # sep
         IN <<SubSeq(s, 1, i - 1)>> \o split(SubSeq(s, i + 1, Len(s)), sep)
    ELSE <<s>>

RECURSIVE join(_, _)
join(parts, sep) ==
    IF parts = <<>> THEN ""
    ELSE IF Len(parts) = 1 THEN parts[1]
    ELSE parts[1] \o sep \o join(Tail(parts), sep)

\* str.zfill: zeros go after a leading sign.
RECURSIVE zfill(_, _)
zfill(s, width) ==
    IF Len(s) >= width THEN s
    ELSE IF Len(s) > 0 /\ Char(s, 1) \in {"+", "-"}
    THEN Char(s, 1) \o zfill("0" \o SubSeq(s, 2, Len(s)), width - 1)
    ELSE zfill("0" \o s, width)

\* Length of the longest run of characters of class cs that starts at i.
RECURSIVE run(_, _, _)
run(s, i, cs) ==
    IF i <= Len(s) /\ Char(s, i) \in cs THEN 1 + run(s, i + 1, cs) ELSE 0

NoMatch == [matched |-> FALSE, season |-> "", episode_num |-> "", title |-> ""]

\* re.compile(r'(\d+)x(\d+)\s*(.*)').match(line): anchored at the start of
\* the line, every quantifier greedy.
episode_pattern_match(line) ==
    LET d1 == run(line, 1, Digits)
        d2 == run(line, d1 + 2, Digits)
        ws == run(line, d1 + d2 + 2, Whitespace)
    IN IF d1 = 0 \/ d1 + 1 > Len(line) \/ Char(line, d1 + 1) # "x" \/ d2 = 0
       THEN NoMatch
       ELSE [matched |-> TRUE,
             season |-> SubSeq(line, 1, d1),
             episode_num |-> SubSeq(line, d1 + 2, d1 + d2 + 1),
             title |-> SubSeq(line, d1 + d2 + ws + 2, Len(line))]

\* f"S{season}E{episode_num.zfill(2)}"
episode_code(season, episode_num) == "S" \o season \o "E" \o zfill(episode_num, 2)

(***************************************************************************)
(* episodes.py: the branches of the loop body of extract_episodes_from_text*)
(***************************************************************************)
\* The mutated test: a scene starts only when none is open.
is_scene_start_idle(line) ==
    ~in_scene /\ startswith(line, "===") /\ contains(line, "Scene")

is_scene_start(line) == startswith(line, "===") /\ contains(line, "Scene")

is_scene_end(line) == in_scene /\ startswith(line, "---")

\* The mutated commit: the test for an active episode is dropped.
commit_scene_no_episode_check(eps, flat, ce, cet, buf) ==
    IF buf # <<>>
    THEN [episodes |->
              IF ce \in DOMAIN eps
              THEN [eps EXCEPT ![ce].scenes = Append(@, join(buf, "\n"))]
              ELSE eps,
          scenes_with_episodes |->
              Append(flat, [episode |-> ce, title |-> cet,
                            scene |-> join(buf, "\n")])]
    ELSE [episodes |-> eps, scenes_with_episodes |-> flat]

\* The mutated commit: the flat entry takes the title stored in the mapping.
commit_scene_stored_title(eps, flat, ce, cet, buf) ==
    IF buf # <<>> /\ ce # None
    THEN [episodes |-> [eps EXCEPT ![ce].scenes = Append(@, join(buf, "\n"))],
          scenes_with_episodes |->
              Append(flat, [episode |-> ce, title |-> eps[ce].title,
                            scene |-> join(buf, "\n")])]
    ELSE [episodes |-> eps, scenes_with_episodes |-> flat]

\* if scene_buffer and current_episode: ... (the scene end branch)
commit_scene(eps, flat, ce, cet, buf) ==
    IF buf # <<>> /\ ce # None
    THEN [episodes |-> [eps EXCEPT ![ce].scenes = Append(@, join(buf, "\n"))],
          scenes_with_episodes |->
              Append(flat, [episode |-> ce, title |-> cet,
                            scene |-> join(buf, "\n")])]
    ELSE [episodes |-> eps, scenes_with_episodes |-> flat]

\* The mutated initialisation: a known code has its title replaced.
register_episode_overwrite_title(eps, code, title) ==
    IF code \notin DOMAIN eps
    THEN eps @@ (code :> [title |-> strip(title), scenes |-> <<>>])
    ELSE [eps EXCEPT ![code].title = strip(title)]

\* The mutated initialisation: the record is created on every marker line.
register_episode_reset(eps, code, title) ==
    [c \in DOMAIN eps \cup {code} |->
        IF c = code THEN [title |-> strip(title), scenes |-> <<>>] ELSE eps[c]]

\* if episode_code not in episodes: episodes[episode_code] = {...}
register_episode(eps, code, title) ==
    IF code \notin DOMAIN eps
    THEN eps @@ (code :> [title |-> strip(title), scenes |-> <<>>])
    ELSE eps

(***************************************************************************)
(* episodes.py as a state machine: one action per branch of the loop.      *)
(***************************************************************************)
\* Raw lines a transcript is made of.
LineAlphabet ==
    { "=== Scene 1 ===",
      "Scene 2x10",
      "\f --- ",
      "1x02 The Bicycle Thief",
      "1x2\f Pilot ",
      "2x10 Pilot" }

Transcripts ==
    {join(ls, "\n") : ls \in UNION {[1..n -> LineAlphabet] : n \in 0..MaxLines}}

InitGraph0 ==
    /\ data = <<>>
    /\ min_scenes = 1
    /\ G = EmptyGraph
    /\ gpc = "start"
    /\ result = NoResult

InitSeg ==
    /\ text_data \in Transcripts
    /\ lines = <<>>
    /\ idx = 1
    /\ episodes = <<>>
    /\ scenes_with_episodes = <<>>
    /\ current_episode = None
    /\ current_episode_title = None
    /\ scene_buffer = <<>>
    /\ in_scene = FALSE
    /\ spc = "start"
    /\ InitGraph0

\* The line the for loop is at, after line.strip().
Scanning == spc = "scan" /\ idx <= Len(lines)
line == strip(lines[idx])

\* Lines 15-25: the initialisation and text_data.split('\n').
Start ==
    /\ spc = "start"
    /\ lines' = split(text_data, "\n")
    /\ idx' = 1
    /\ episodes' = <<>>
    /\ scenes_with_episodes' = <<>>
    /\ current_episode' = None
    /\ current_episode_title' = None
    /\ scene_buffer' = <<>>
    /\ in_scene' = FALSE
    /\ spc' = "scan"
    /\ UNCHANGED text_data
    /\ UNCHANGED gvars

\* Lines 31-34.
SceneStart ==
    /\ Scanning
    /\ is_scene_start(line)
    /\ in_scene' = TRUE
    /\ scene_buffer' = <<line>>
    /\ idx' = idx + 1
    /\ UNCHANGED <<text_data, lines, episodes, scenes_with_episodes,
                   current_episode, current_episode_title, spc>>
    /\ UNCHANGED gvars

\* Lines 37-47.
SceneEnd ==
    /\ Scanning
    /\ ~is_scene_start(line)
    /\ is_scene_end(line)
    /\ in_scene' = FALSE
    /\ LET c == commit_scene(episodes, scenes_with_episodes, current_episode,
                             current_episode_title, scene_buffer)
       IN /\ episodes' = c.episodes
          /\ scenes_with_episodes' = c.scenes_with_episodes
    /\ idx' = idx + 1
    /\ UNCHANGED <<text_data, lines, current_episode, current_episode_title,
                   scene_buffer, spc>>
    /\ UNCHANGED gvars

\* Lines 50-66.
SceneContent ==
    /\ Scanning
    /\ ~is_scene_start(line)
    /\ ~is_scene_end(line)
    /\ in_scene
    /\ scene_buffer' = Append(scene_buffer, line)
    /\ LET match == episode_pattern_match(line)
           code == episode_code(match.season, match.episode_num)
       IN IF match.matched
          THEN /\ current_episode' = code
               /\ current_episode_title' = strip(match.title)
               /\ episodes' = register_episode(episodes, code, match.title)
          ELSE UNCHANGED <<current_episode, current_episode_title, episodes>>
    /\ idx' = idx + 1
    /\ UNCHANGED <<text_data, lines, scenes_with_episodes, in_scene, spc>>
    /\ UNCHANGED gvars

\* A line outside a scene that starts none: no branch of the body applies.
SkipLine ==
    /\ Scanning
    /\ ~is_scene_start(line)
    /\ ~is_scene_end(line)
    /\ ~in_scene
    /\ idx' = idx + 1
    /\ UNCHANGED <<text_data, lines, episodes, scenes_with_episodes,
                   current_episode, current_episode_title, scene_buffer,
                   in_scene, spc>>
    /\ UNCHANGED gvars

\* Line 68: the loop is over.
Return ==
    /\ spc = "scan"
    /\ idx > Len(lines)
    /\ spc' = "done"
    /\ UNCHANGED <<text_data, lines, idx, episodes, scenes_with_episodes,
                   current_episode, current_episode_title, scene_buffer,
                   in_scene>>
    /\ UNCHANGED gvars

NextSeg == Start \/ SceneStart \/ SceneEnd \/ SceneContent \/ SkipLine \/ Return

SpecSeg == InitSeg /\ [][NextSeg]_vars

(***************************************************************************)
(* Properties of episodes.py, checked under SpecSeg.  They are stated      *)
(* against the transcript itself: what each processed line is, read off    *)
(* lines[1..idx-1], without the scanner's own variables.                   *)
(***************************************************************************)
Stripped(k) == strip(lines[k])

IsOpenMarker(l) == startswith(l, "===") /\ contains(l, "Scene")
IsCloseMarker(l) == startswith(l, "---")
IsEpisodeMarker(l) == episode_pattern_match(l).matched
MarkerCode(l) ==
    episode_code(episode_pattern_match(l).season, episode_pattern_match(l).episode_num)
MarkerTitle(l) == strip(episode_pattern_match(l).title)

Processed == 1..(idx - 1)

\* Whether a scene is open when line k is reached.
RECURSIVE InSceneBefore(_)
InSceneBefore(k) ==
    IF k <= 1 THEN FALSE
    ELSE IF IsOpenMarker(Stripped(k - 1)) THEN TRUE
    ELSE IF IsCloseMarker(Stripped(k - 1)) THEN FALSE
    ELSE InSceneBefore(k - 1)

\* Line k is a close marker that ends an open scene.
ClosesScene(k) ==
    InSceneBefore(k) /\ ~IsOpenMarker(Stripped(k)) /\ IsCloseMarker(Stripped(k))

\* Line k is an episode-marker line inside a scene: it sets the active episode.
SetsEpisode(k) ==
    /\ InSceneBefore(k)
    /\ ~IsOpenMarker(Stripped(k))
    /\ ~IsCloseMarker(Stripped(k))
    /\ IsEpisodeMarker(Stripped(k))

MarkersBefore(k) == {m \in 1..(k - 1) : SetsEpisode(m)}

\* The closes that find an episode active.
CommitIdxs == {k \in Processed : ClosesScene(k) /\ MarkersBefore(k) # {}}

NthOf(S, n) == CHOOSE j \in S : Cardinality({i \in S : i < j}) = n - 1
FirstOf(S) == CHOOSE j \in S : \A i \in S : j <= i

\* The open marker that began the buffer open when line k is reached: the
\* latest open marker before k, and the one that left Idle.
LatestOpenBefore(k) == LastOf({o \in 1..(k - 1) : IsOpenMarker(Stripped(o))})
IdleOpenBefore(k) ==
    LastOf({o \in 1..(k - 1) : IsOpenMarker(Stripped(o)) /\ ~InSceneBefore(o)})

StrippedFrom(o, k) == [i \in 1..(k - o) |-> Stripped(o + i - 1)]

RECURSIVE TotalScenes(_, _)
TotalScenes(eps, S) ==
    IF S = {} THEN 0
    ELSE LET c == CHOOSE c \in S : TRUE
         IN Len(eps[c].scenes) + TotalScenes(eps, S \ {c})

\* C5: the flat list and the episode scene lists hold one entry per close
\* marker that ended an open scene while an episode was active, and no
\* other: nothing before the first episode-marker line of a scene, nothing
\* for a buffer still open at the end of the input.
C5_OnlyCloseWithEpisodeCommits ==
    /\ Len(scenes_with_episodes) = Cardinality(CommitIdxs)
    /\ TotalScenes(episodes, DOMAIN episodes) = Cardinality(CommitIdxs)
    /\ (\A k \in Processed : ~IsEpisodeMarker(Stripped(k))) =>
           (scenes_with_episodes = <<>> /\ DOMAIN episodes = {})

C5_Witness ==
    /\ spc = "done"
    /\ in_scene
    /\ current_episode # None
    /\ scenes_with_episodes = <<>>
    /\ \E k \in Processed : ClosesScene(k)

\* C6: the title stored for an episode code is the title of the first
\* episode-marker line that produced the code; a later marker line with the
\* same code changes neither the stored title nor the collected scenes.
C6_FirstTitleRetained ==
    \A c \in DOMAIN episodes :
        LET ms == {m \in Processed : SetsEpisode(m) /\ MarkerCode(Stripped(m)) = c}
            cs == {k \in CommitIdxs :
                      MarkerCode(Stripped(LastOf(MarkersBefore(k)))) = c}
        IN /\ ms # {}
           /\ episodes[c].title = MarkerTitle(Stripped(FirstOf(ms)))
           /\ Len(episodes[c].scenes) = Cardinality(cs)

C6_Witness ==
    /\ current_episode \in DOMAIN episodes
    /\ episodes[current_episode].title # current_episode_title
    /\ episodes[current_episode].scenes # <<>>

\* C7: after every processed line and at the end of the scan, the scene
\* lists of all episodes together are as long as the flat list.
C7_TotalsAgree ==
    TotalScenes(episodes, DOMAIN episodes) = Len(scenes_with_episodes)

C7_Witness ==
    /\ Len(scenes_with_episodes) >= 1
    /\ Cardinality(DOMAIN episodes) >= 2
    /\ \E c \in DOMAIN episodes : episodes[c].scenes = <<>>

\* C9 as claimed: a buffer is started only from Idle, so the open buffer
\* holds every line from the open marker that left Idle.
C9_BufferFromIdleOpen ==
    (in_scene /\ spc # "start") =>
        scene_buffer = StrippedFrom(IdleOpenBefore(idx), idx)

\* C9 amended: every open-marker line starts a new buffer, in Idle and in
\* InScene alike; the open buffer, and so the scene committed at the next
\* close marker, holds the lines from the most recent open marker on.
C9_BufferFromLatestOpen ==
    /\ (in_scene /\ spc # "start") =>
           scene_buffer = StrippedFrom(LatestOpenBefore(idx), idx)
    /\ \A n \in DOMAIN scenes_with_episodes :
           LET k == NthOf(CommitIdxs, n)
           IN scenes_with_episodes[n].scene =
                  join(StrippedFrom(LatestOpenBefore(k), k), "\n")

C9_Witness ==
    /\ scenes_with_episodes # <<>>
    /\ LET k == NthOf(CommitIdxs, 1)
       IN /\ LatestOpenBefore(k) # IdleOpenBefore(k)
          /\ scenes_with_episodes[1].scene =
                 join(StrippedFrom(LatestOpenBefore(k), k), "\n")

\* C10 as claimed: every flat entry names a key of the mapping and carries
\* the title stored there.
C10_FlatTitleIsStoredTitle ==
    \A n \in DOMAIN scenes_with_episodes :
        /\ scenes_with_episodes[n].episode \in DOMAIN episodes
        /\ scenes_with_episodes[n].title =
               episodes[scenes_with_episodes[n].episode].title

\* C10 amended: every flat entry names a key of the mapping and carries the
\* title of the latest episode-marker line before its scene closed; that is
\* the stored title unless the code was declared before with another title.
C10_FlatTitleIsLatestTitle ==
    \A n \in DOMAIN scenes_with_episodes :
        LET k == NthOf(CommitIdxs, n)
            m == LastOf(MarkersBefore(k))
            e == scenes_with_episodes[n]
            same == {j \in MarkersBefore(m) :
                        MarkerCode(Stripped(j)) = MarkerCode(Stripped(m))}
        IN /\ e.episode \in DOMAIN episodes
           /\ e.episode = MarkerCode(Stripped(m))
           /\ e.title = MarkerTitle(Stripped(m))
           /\ (\A j \in same : MarkerTitle(Stripped(j)) = e.title) =>
                  e.title = episodes[e.episode].title

C10_Witness ==
    \E n \in DOMAIN scenes_with_episodes :
        /\ scenes_with_episodes[n].episode \in DOMAIN episodes
        /\ scenes_with_episodes[n].title #
               episodes[scenes_with_episodes[n].episode].title

====
